---- MODULE Spec2Model ----
(***************************************************************************)
(* A model of the node-side worker runtime of disco                        *)
(* (lib/disco/worker/__init__.py): the control channel (Worker.send), the  *)
(* replica resolver (IDedInput, ReplicaIter), the resumable input stream   *)
(* (InputIter), the compositions (Input, SerialInput, ParallelInput,      *)
(* MergedInput) and the task driver (Worker.main/start/end/output).        *)
(***************************************************************************)
EXTENDS Integers, Sequences, FiniteSets, TLC

(* ------------------------------ bounds --------------------------------- *)
\* longest record sequence held by a logical input
MaxLen == 2
\* longest scripted prefix of master replies to INP requests for one input
MaxScript == 2
\* most calls of Worker.output the user procedure makes in one task
MaxCalls == 3
\* most messages the user procedure sends itself in one task
MaxUserSends == 1
\* number of logical inputs of a composition
NStreams == 2
\* most unfiltered INP requests of one enumeration of the inputs
MaxRequests == 3
\* most entries in the input list of one reply to INP
MaxListed == 2
\* most nested calls of swap() the interpreter's recursion limit leaves room
\* for (sys.getrecursionlimit() is 1000 in CPython)
RecursionLimit == 5

(* --------------------------- program values ---------------------------- *)
\* Python's None, which compares below every record (records are 1, 2, ...)
NoneVal == 0

URLs == {"a", "b"}
Never == MaxLen + 1

Streams == 1..NStreams

VARIABLES
    env,        \* per logical input: what the master and the replicas will do
    strm,       \* per logical input: the InputIter / ReplicaIter object state
    delivered,  \* per logical input: the values InputIter.next() has returned
    pc,         \* position of the consumer / of the composed generator
    out,        \* what the composed iteration has yielded: <<[src, v], ...>>
    iters,      \* ParallelInput: the working list of streams
    cur,        \* the stream being drained or refilled (0: none)
    heads,      \* MergedInput: the buffered head of each stream, or Wait
    heap,       \* merge: the value it holds of each coupled generator
    wk          \* the Worker process: control channel, outputs, task

vars == <<env, strm, delivered, pc, out, iters, cur, heads, heap, wk>>
streamvars == <<env, strm, delivered>>
compvars == <<out, iters, cur, heads, heap, wk>>
mergevars == <<heads, heap, wk>>

(* ---------------------------- small helpers ---------------------------- *)
Range(s) == {s[i] : i \in 1..Len(s)}

SeqsUpTo(S, n) == UNION {[1..k -> S] : k \in 0..n}

(* ------------------------- the environment ----------------------------- *)
\* One logical input: the record sequence every replica holds, the replica
\* URLs the master lists, the replicas whose open() raises DataError, the
\* read index at which each replica raises DataError (Len(recs) is the read
\* that would have hit end of file; Never: the replica reads through), and
\* the statuses of the master's first replies to INP requests for this id
\* (script) and of every later reply (after: "ok", or "failed" for an input
\* that is permanently unavailable).
Statuses == {"ok", "busy", "failed"}

EnvOK(e) ==
    /\ e.badOpen \subseteq e.replicas
    /\ \A u \in URLs :
          /\ e.failAt[u] \in (0..Len(e.recs)) \cup {Never}
          /\ (u \notin e.replicas \/ u \in e.badOpen) => e.failAt[u] = Never

(* ------------------- Worker.get_input / IDedInput ---------------------- *)
\* a set of URLs as the list the master or the caller gives them in
RECURSIVE ReplicaList(_)
ReplicaList(S) ==
    IF S = {} THEN << >>
    ELSE LET u == CHOOSE x \in S : TRUE
         IN  <<u>> \o ReplicaList(S \ {u})

\* faulty variant: a failed input is taken for one without replicas
get_input_status_lenient(id, status, replicas) ==
    CASE status = "busy"   -> [exc |-> "Wait", arg |-> "", urls |-> << >>]
      [] OTHER -> [exc |-> "none", arg |-> "",
                   urls |-> [i \in 1..Len(replicas) |-> replicas[i].url]]

\* Worker.get_input(id), once the reply is there:
\* _id, status, replicas = inputs[0]; busy raises Wait, failed raises
\* DataError("Can't handle broken input", id), otherwise
\* [url for rid, url in replicas]
get_input_status(id, status, replicas) ==
    CASE status = "busy"   -> [exc |-> "Wait", arg |-> "", urls |-> << >>]
      [] status = "failed" -> [exc |-> "DataError", arg |-> id, urls |-> << >>]
      [] OTHER -> [exc |-> "none", arg |-> "",
                   urls |-> [i \in 1..Len(replicas) |-> replicas[i].url]]

\* Worker.get_input(id) for the input of a stream: one INP request, answered
\* by the master as the environment says; the replicas of an input that is
\* busy or failed are not listed.
get_input(e, s) ==
    LET i      == s.resolved + 1
        status == IF i <= Len(e.script) THEN e.script[i] ELSE e.after
        listed == IF status = "ok" THEN ReplicaList(e.replicas) ELSE << >>
        r      == get_input_status("id", status,
                      [k \in 1..Len(listed) |-> [rid |-> k, url |-> listed[k]]])
    IN  [exc  |-> r.exc,
         urls |-> r.urls,
         s    |-> [s EXCEPT !.resolved = i]]

\* IDedInput.unavailable(tried): a DAT message carrying the id and the tried URLs
unavailable(s) == [s EXCEPT !.dat = Append(@, s.used)]

(* --------------------------- ReplicaIter ------------------------------- *)
\* faulty variant: the URL of the first resolution is returned without being
\* recorded as used
ReplicaIter_next_unrecorded(e, s) ==
    LET g == IF e.ided THEN get_input(e, s)
             ELSE [exc |-> "none", urls |-> ReplicaList(e.replicas), s |-> s]
    IN  IF g.exc # "none"
        THEN {[exc |-> g.exc, url |-> "", s |-> g.s]}
        ELSE LET urls == Range(g.urls) \ g.s.used
             IN  IF urls # {}
                 THEN {[exc |-> "none", url |-> u,
                        s |-> IF g.s.resolved = 1 THEN g.s
                              ELSE [g.s EXCEPT !.used = @ \cup {u}]] : u \in urls}
                 ELSE {[exc |-> "StopIteration", url |-> "",
                        s |-> IF e.ided THEN unavailable(g.s) ELSE g.s]}

\* faulty variant: the replica set of the last resolution is kept, and the
\* master is asked again only when that set has no untried URL left
ReplicaIter_next_cached(e, s) ==
    LET cached == IF /\ e.ided
                     /\ s.resolved >= 1
                     /\ s.resolved > Len(e.script) \/ e.script[s.resolved] = "ok"
                     /\ s.resolved <= Len(e.script) \/ e.after = "ok"
                  THEN e.replicas \ s.used ELSE {}
        g == IF e.ided /\ cached = {} THEN get_input(e, s)
             ELSE [exc |-> "none", urls |-> ReplicaList(e.replicas), s |-> s]
    IN  IF g.exc # "none"
        THEN {[exc |-> g.exc, url |-> "", s |-> g.s]}
        ELSE LET urls == Range(g.urls) \ g.s.used
             IN  IF urls # {}
                 THEN {[exc |-> "none", url |-> u,
                        s |-> [g.s EXCEPT !.used = @ \cup {u}]] : u \in urls}
                 ELSE {[exc |-> "StopIteration", url |-> "",
                        s |-> IF e.ided THEN unavailable(g.s) ELSE g.s]}

\* ReplicaIter.next(): the possible outcomes (the iteration order of a
\* Python set is not specified, so any untried URL may come first).
ReplicaIter_next(e, s) ==
    LET g == IF e.ided THEN get_input(e, s)
             ELSE [exc |-> "none", urls |-> ReplicaList(e.replicas), s |-> s]
    IN  IF g.exc # "none"
        THEN {[exc |-> g.exc, url |-> "", s |-> g.s]}
        ELSE LET urls == Range(g.urls) \ g.s.used
             IN  IF urls # {}
                 THEN {[exc |-> "none", url |-> u,
                        s |-> [g.s EXCEPT !.used = @ \cup {u}]] : u \in urls}
                 ELSE {[exc |-> "StopIteration", url |-> "",
                        s |-> IF e.ided THEN unavailable(g.s) ELSE g.s]}

(* ----------------------------- InputIter ------------------------------- *)
\* InputIter.swap(): open the next replica behind a lazy skip to last + 1.
\* A DataError from the resolution or from open() is retried by recursion;
\* StopIteration from the ReplicaIter becomes DataError("Exhausted ...");
\* Wait propagates and leaves self.iter as it was.  (opened records the
\* URLs handed to self.open, in order.)  When the master answers "failed"
\* to every request from now on, the recursion goes on, one INP request per
\* level, until the interpreter's recursion limit ends it with a
\* RuntimeError, which no handler on the way catches.  How many levels the
\* limit leaves room for depends on the depth of the stack at the call, so
\* the number of requests sent by then is any number up to the limit.
RECURSIVE swap(_, _)
swap(e, s) ==
    UNION {
        CASE r.exc = "Wait"          -> {[exc |-> "Wait", s |-> r.s]}
          [] r.exc = "StopIteration" -> {[exc |-> "DataError", s |-> r.s]}
          [] r.exc = "DataError"     ->
               IF r.s.resolved > Len(e.script) /\ e.after = "failed"
               THEN {[exc |-> "RuntimeError", s |-> [r.s EXCEPT !.resolved = k]] :
                        k \in r.s.resolved..RecursionLimit}
               ELSE swap(e, r.s)
          [] OTHER ->
               LET o == [r.s EXCEPT !.opened = Append(@, r.url)]
               IN  IF r.url \in e.badOpen
                   THEN swap(e, o)
                   ELSE {[exc |-> "none",
                          s |-> [o EXCEPT !.iter =
                                    [url |-> r.url, pos |-> 0, st |-> "open"]]]}
        : r \in ReplicaIter_next(e, s) }

\* self.iter.next() on an open replica: dropwhile(n < last + 1, enumerate(f)).
\* Reads indices pos .. last + 1; the replica raises DataError when the
\* read reaches its failing index.
iter_next(e, s) ==
    LET it     == s.iter
        target == s.last + 1
        fa     == e.failAt[it.url]
        n      == Len(e.recs)
    IN  IF fa >= it.pos /\ fa <= target /\ fa <= n
        THEN [exc |-> "DataError", item |-> NoneVal,
              s |-> [s EXCEPT !.iter.st = "raised", !.iter.pos = fa]]
        ELSE IF target >= n
        THEN [exc |-> "StopIteration", item |-> NoneVal,
              s |-> [s EXCEPT !.iter.st = "eof", !.iter.pos = n]]
        ELSE [exc |-> "none", item |-> e.recs[target + 1],
              s |-> [s EXCEPT !.last = target, !.iter.pos = target + 1]]

\* What InputIter.next() does once self.iter.next() has raised DataError:
\* swap(), and then fall off the end of the method (Python returns None).
after_DataError(e, s) ==
    {[exc |-> w.exc, item |-> NoneVal, s |-> w.s] : w \in swap(e, s)}

\* InputIter.next(): the possible outcomes.  An iterator that has already
\* raised (swap() raised Wait before replacing it) is the opener's object:
\* asked again it raises DataError again or reports StopIteration.
InputIter_next(e, s) ==
    CASE s.iter.st = "open" ->
           LET r == iter_next(e, s)
           IN  IF r.exc = "DataError" THEN after_DataError(e, r.s) ELSE {r}
      [] s.iter.st = "raised" ->
           after_DataError(e, s)
           \cup {[exc |-> "StopIteration", item |-> NoneVal,
                  s |-> [s EXCEPT !.iter.st = "dead"]]}
      [] OTHER ->
           {[exc |-> "StopIteration", item |-> NoneVal, s |-> s]}

\* ReplicaIter.__init__ and InputIter.__init__ before the first swap()
NewStream ==
    [used |-> {}, last |-> 0 - 1, resolved |-> 0, dat |-> << >>,
     opened |-> << >>,
     iter |-> [url |-> "", pos |-> 0, st |-> "none"]]

\* InputIter.__init__: the constructor ends with swap()
InputIter_init(e) == swap(e, NewStream)

\* the stream specifications have no worker process
NoWorker == [pc |-> "none"]

(* ====================================================================== *)
(* SpecIter: one InputIter driven by successive next() calls               *)
(* ====================================================================== *)
Ident(n) == [i \in 1..n |-> i]

\* an input the consumer never touches
IdleEnv ==
    [recs |-> << >>, replicas |-> {}, badOpen |-> {},
     failAt |-> [u \in URLs |-> Never], script |-> << >>, after |-> "ok",
     ided |-> TRUE]

IterEnvs ==
    {e \in [recs : {Ident(n) : n \in 0..MaxLen},
            replicas : SUBSET URLs, badOpen : SUBSET URLs,
            failAt : [URLs -> 0..Never],
            script : SeqsUpTo(Statuses, MaxScript), after : {"ok", "failed"},
            ided : BOOLEAN] :
        EnvOK(e) /\ (~e.ided => e.script = << >> /\ e.after = "ok")}

InitIter ==
    /\ env \in {[n \in Streams |-> IF n = 1 THEN e ELSE IdleEnv] : e \in IterEnvs}
    /\ strm = [n \in Streams |-> NewStream]
    /\ delivered = [n \in Streams |-> << >>]
    /\ pc = "new"
    /\ out = << >> /\ iters = << >> /\ cur = 0
    /\ heads = << >> /\ heap = << >>
    /\ wk = NoWorker

\* iter = InputIter(input)
IterConstruct ==
    /\ pc = "new"
    /\ \E r \in InputIter_init(env[1]) :
          /\ strm' = [strm EXCEPT ![1] = r.s]
          /\ pc' = IF r.exc = "none" THEN "iter" ELSE r.exc
    /\ UNCHANGED <<env, delivered, compvars>>

\* iter.next(); a caller that catches Wait calls next() again
IterNext ==
    /\ pc = "iter"
    /\ \E r \in InputIter_next(env[1], strm[1]) :
          /\ strm' = [strm EXCEPT ![1] = r.s]
          /\ delivered' = IF r.exc = "none"
                          THEN [delivered EXCEPT ![1] = Append(@, r.item)]
                          ELSE delivered
          /\ pc' = CASE r.exc = "none" -> "iter"
                     [] r.exc = "Wait" -> "iter"
                     [] r.exc = "StopIteration" -> "done"
                     [] OTHER -> r.exc
    /\ UNCHANGED <<env, compvars>>

NextIter == IterConstruct \/ IterNext

SpecIter == InitIter /\ [][NextIter]_vars

FairSpecIter == SpecIter /\ WF_vars(NextIter)

(* ------------------------------ C1 ------------------------------------- *)
\* C1 (replay safety): when successive InputIter.next() calls reach clean
\* exhaustion (a replica read through to its end), the values they returned
\* are exactly the record sequence R: nothing duplicated, nothing missing,
\* nothing that is not a record of R.
C1_ReplaySafe ==
    (pc = "done" /\ strm[1].iter.st = "eof") => delivered[1] = env[1].recs

(* ------------------------------ C2 ------------------------------------- *)
\* the status of the master's i-th reply for the input
ReplyStatus(e, i) == IF i <= Len(e.script) THEN e.script[i] ELSE e.after

\* the master hands the replicas of the input over at the first resolution
\* and never reports the input failed; every one of these replicas fails
AllReplicasFail(e) ==
    /\ e.ided
    /\ e.replicas # {}
    /\ \A u \in e.replicas : u \in e.badOpen \/ e.failAt[u] # Never
    /\ ReplyStatus(e, 1) = "ok"
    /\ \A i \in 1..(Len(e.script) + 1) : ReplyStatus(e, i) # "failed"

\* C2 (exhaustion reported once): the unavailable report (DAT) of a
\* master-resolved input is never sent twice; when the stream raises
\* DataError the report has been sent exactly once and carries every URL
\* that was tried; and an input whose replicas are known and all fail
\* eventually raises DataError, whatever the master answers to the later
\* resolutions short of reporting the input failed.
C2_ExhaustionReportedOnce ==
    /\ [](/\ Len(strm[1].dat) <= 1
          /\ (pc = "DataError" /\ env[1].ided) =>
                /\ Len(strm[1].dat) = 1
                /\ strm[1].dat[1] = Range(strm[1].opened)
                /\ env[1].replicas \subseteq strm[1].dat[1])
    /\ [](AllReplicasFail(env[1]) => <>(pc = "DataError"))

(* ====================================================================== *)
(* Compositions: common parts                                              *)
(* ====================================================================== *)
\* time.sleep(self.WAIT_TIMEOUT): the module never imports time, so the
\* call raises NameError instead of pausing.
sleep == "NameError"

\* after "except Wait:" has called sleep: the error, or go round again
backoff == IF sleep = "none" THEN "Retry" ELSE sleep

\* [InputIter(input, **self.kwds) for input in self.inputs]: the streams are
\* constructed in order; the first constructor that raises ends the loop.
RECURSIVE construct(_, _, _)
construct(envs, k, sm) ==
    IF k > NStreams
    THEN {[exc |-> "none", strm |-> sm]}
    ELSE UNION {
           IF r.exc = "none"
           THEN construct(envs, k + 1, [sm EXCEPT ![k] = r.s])
           ELSE {[exc |-> r.exc, strm |-> [sm EXCEPT ![k] = r.s]]}
         : r \in InputIter_init(envs[k]) }

Vals(seq) == [i \in 1..Len(seq) |-> seq[i].v]
From(seq, n) == Vals(SelectSeq(seq, LAMBDA x : x.src = n))

\* the stream has ended cleanly: its replica was read through to the end
Exhausted(s) == s.iter.st = "eof"

\* the stream has reported StopIteration: cleanly, or from the iterator of a
\* failed replica that a busy re-resolution left in place
Ended(s) == s.iter.st \in {"eof", "dead"}

\* the records among the values a stream yielded
Records(seq) == SelectSeq(seq, LAMBDA v : v # NoneVal)

\* the master has answered "busy" to a resolution of input n
GotBusy(n) == \E i \in 1..strm[n].resolved : ReplyStatus(env[n], i) = "busy"

\* no replica of the input raises a data error and the master is never busy
Healthy(e) ==
    /\ e.badOpen = {}
    /\ \A u \in URLs : e.failAt[u] = Never
    /\ \A i \in 1..Len(e.script) : e.script[i] = "ok"
    /\ e.after = "ok"

\* the inputs of a composition: both replicas are listed, and the replicas
\* and the master follow one of these scenarios
NoFail == [u \in URLs |-> Never]

Scenarios(len) ==
    { \* every replica reads through, the master is ready
      [failAt |-> NoFail, script |-> << >>, after |-> "ok"],
      \* both replicas fail: "a" at its first read, "b" at its last
      [failAt |-> [NoFail EXCEPT !["a"] = 0, !["b"] = len], script |-> << >>,
       after |-> "ok"],
      \* the master is busy at the first resolution
      [failAt |-> NoFail, script |-> <<"busy">>, after |-> "ok"],
      \* replica "a" fails and the master is busy at the next resolution
      [failAt |-> [NoFail EXCEPT !["a"] = 0], script |-> <<"ok", "busy">>,
       after |-> "ok"],
      \* both replicas fail at their first read and the master is busy at the
      \* next resolution
      [failAt |-> [NoFail EXCEPT !["a"] = 0, !["b"] = 0],
       script |-> <<"ok", "busy">>, after |-> "ok"],
      \* the master reports the input failed, once
      [failAt |-> NoFail, script |-> <<"failed">>, after |-> "ok"],
      \* the master reports the input failed at every resolution
      [failAt |-> NoFail, script |-> << >>, after |-> "failed"],
      \* replica "a" fails at its first read and the master reports the
      \* input failed from then on
      [failAt |-> [NoFail EXCEPT !["a"] = 0], script |-> <<"ok">>,
       after |-> "failed"] }
    \cup
    { \* replica "a" fails at some read, "b" reads through
      [failAt |-> [NoFail EXCEPT !["a"] = i], script |-> << >>, after |-> "ok"] :
        i \in 0..len }

CompEnvs(R) ==
    UNION {{[recs |-> r, replicas |-> URLs, badOpen |-> {}, failAt |-> sc.failAt,
             script |-> sc.script, after |-> sc.after, ided |-> TRUE] :
               sc \in Scenarios(Len(r))} :
           r \in R}

\* the records of input n are n*10 + 1, n*10 + 2, ...
Tagged(n, len) == [i \in 1..len |-> n * 10 + i]

\* the inputs of a composition; at most F of them depart from the healthy
\* scenario
InitComp(R(_), F) ==
    /\ env \in {f \in [Streams -> CompEnvs(UNION {R(n) : n \in Streams})] :
                  /\ \A n \in Streams : f[n].recs \in R(n)
                  /\ Cardinality({n \in Streams : ~Healthy(f[n])}) <= F}
    /\ strm = [n \in Streams |-> NewStream]
    /\ delivered = [n \in Streams |-> << >>]
    /\ out = << >>
    /\ cur = 0
    /\ wk = NoWorker

(* ====================================================================== *)
(* SpecSerial: SerialInput over Input                                      *)
(* ====================================================================== *)
TaggedRecs(n) == {Tagged(n, len) : len \in 0..MaxLen}

InitSerial ==
    /\ InitComp(TaggedRecs, NStreams)
    /\ heads = << >> /\ heap = << >>
    /\ iters = [i \in 1..NStreams |-> i]
    /\ pc = "loop"

\* Input.__iter__, first resumption: iter = InputIter(self.input, **self.kwds)
\* is outside the try, so whatever the constructor raises leaves the generator
Input_open(e) == InputIter_init(e)

\* faulty variant: a busy input is given up as if it had ended
Input_next_gives_up(e, s) ==
    {IF r.exc = "Wait" THEN [r EXCEPT !.exc = "StopIteration"] ELSE r :
        r \in InputIter_next(e, s)}

\* Input.__iter__, later resumptions: for item in iter: yield item;
\* except Wait: time.sleep(...)
Input_next(e, s) ==
    {IF r.exc = "Wait" THEN [r EXCEPT !.exc = backoff] ELSE r :
        r \in InputIter_next(e, s)}

\* SerialInput.__iter__: for input in self.inputs: take the next input
SerNextInput ==
    /\ pc = "loop" /\ cur = 0 /\ iters # << >>
    /\ LET k == Head(iters)
       IN  \E r \in Input_open(env[k]) :
             /\ strm' = [strm EXCEPT ![k] = r.s]
             /\ IF r.exc = "none"
                THEN cur' = k /\ iters' = Tail(iters) /\ pc' = pc
                ELSE pc' = r.exc /\ UNCHANGED <<cur, iters>>
    /\ UNCHANGED <<env, delivered, out, mergevars>>

\* SerialInput.__iter__: for record in Input(input): yield record
SerNext ==
    /\ pc = "loop" /\ cur # 0
    /\ \E r \in Input_next(env[cur], strm[cur]) :
          /\ strm' = [strm EXCEPT ![cur] = r.s]
          /\ IF r.exc = "none"
             THEN /\ delivered' = [delivered EXCEPT ![cur] = Append(@, r.item)]
                  /\ out' = Append(out, [src |-> cur, v |-> r.item])
             ELSE UNCHANGED <<delivered, out>>
          /\ cur' = IF r.exc = "StopIteration" THEN 0 ELSE cur
          /\ pc' = IF r.exc \in {"none", "StopIteration", "Retry"} THEN pc ELSE r.exc
    /\ UNCHANGED <<env, iters, mergevars>>

\* SerialInput.__iter__: self.inputs is used up
SerEnd ==
    /\ pc = "loop" /\ cur = 0 /\ iters = << >>
    /\ pc' = "done"
    /\ UNCHANGED <<env, strm, delivered, out, iters, cur, mergevars>>

NextSerial == SerNextInput \/ SerNext \/ SerEnd

SpecSerial == InitSerial /\ [][NextSerial]_vars

(* ------------------------------ C7 ------------------------------------- *)
IsPrefix(a, b) == Len(a) <= Len(b) /\ SubSeq(b, 1, Len(a)) = a

RECURSIVE ConcatUpTo(_, _)
ConcatUpTo(f, n) == IF n = 0 THEN << >> ELSE ConcatUpTo(f, n - 1) \o f[n]

\* C7 (serial composition): what SerialInput has yielded is always the
\* records of input 1, then those of input 2, and so on, as their streams
\* delivered them; no input has yielded a record before every earlier input
\* ended; and when the iteration ends every input has ended, an input whose
\* replicas read through having yielded exactly its record sequence.
C7_SerialOrder ==
    /\ Vals(out) = ConcatUpTo(delivered, NStreams)
    /\ \A n \in Streams : From(out, n) = delivered[n]
    /\ \A n \in Streams : \A m \in Streams :
          (m < n /\ (delivered[n] # << >> \/ strm[n].iter.st # "none"))
              => Exhausted(strm[m])
    /\ pc = "done" =>
          \A n \in Streams :
             /\ Exhausted(strm[n])
             /\ Healthy(env[n]) => delivered[n] = env[n].recs

C7_Witness ==
    /\ pc = "done"
    /\ Vals(out) = Tagged(1, MaxLen) \o Tagged(2, MaxLen)
    /\ \E n \in Streams : ~Healthy(env[n])

(* ====================================================================== *)
(* SpecParallel: ParallelInput.__iter__                                    *)
(* ====================================================================== *)
InitParallel ==
    /\ InitComp(TaggedRecs, NStreams)
    /\ heads = << >> /\ heap = << >>
    /\ iters = << >>
    /\ pc = "start"

\* iters = [InputIter(input, **self.kwds) for input in self.inputs]
ParStart ==
    /\ pc = "start"
    /\ \E r \in construct(env, 1, strm) :
          /\ strm' = r.strm
          /\ IF r.exc = "none"
             THEN pc' = "loop" /\ iters' = [i \in 1..NStreams |-> i]
             ELSE pc' = r.exc /\ UNCHANGED iters
    /\ UNCHANGED <<env, delivered, out, cur, mergevars>>

\* while iters: iter = iters.pop()
ParPop ==
    /\ pc = "loop" /\ cur = 0 /\ iters # << >>
    /\ cur' = iters[Len(iters)]
    /\ iters' = SubSeq(iters, 1, Len(iters) - 1)
    /\ UNCHANGED <<env, strm, delivered, out, pc, mergevars>>

\* what "except Wait:" does: sleep if no other stream is left, then
\* iters.insert(0, iter)
Par_on_Wait(its, c) ==
    IF its = << >> /\ backoff # "Retry"
    THEN [exc |-> backoff, iters |-> its]
    ELSE [exc |-> "none", iters |-> <<c>> \o its]

\* for item in iter: yield item -- one resumption
ParNext ==
    /\ pc = "loop" /\ cur # 0
    /\ \E r \in InputIter_next(env[cur], strm[cur]) :
          /\ strm' = [strm EXCEPT ![cur] = r.s]
          /\ CASE r.exc = "none" ->
                   /\ delivered' = [delivered EXCEPT ![cur] = Append(@, r.item)]
                   /\ out' = Append(out, [src |-> cur, v |-> r.item])
                   /\ UNCHANGED <<iters, cur, pc>>
               [] r.exc = "StopIteration" ->
                   /\ cur' = 0
                   /\ UNCHANGED <<delivered, out, iters, pc>>
               [] r.exc = "Wait" ->
                   LET w == Par_on_Wait(iters, cur)
                   IN  /\ iters' = w.iters
                       /\ IF w.exc = "none"
                          THEN cur' = 0 /\ pc' = pc
                          ELSE pc' = w.exc /\ cur' = cur
                       /\ UNCHANGED <<delivered, out>>
               [] OTHER ->
                   /\ pc' = r.exc
                   /\ UNCHANGED <<delivered, out, iters, cur>>
    /\ UNCHANGED <<env, mergevars>>

\* while iters: the list is empty
ParEnd ==
    /\ pc = "loop" /\ cur = 0 /\ iters = << >>
    /\ pc' = "done"
    /\ UNCHANGED <<env, strm, delivered, out, iters, cur, mergevars>>

NextParallel == ParStart \/ ParPop \/ ParNext \/ ParEnd

SpecParallel == InitParallel /\ [][NextParallel]_vars

(* ------------------------------ C6 ------------------------------------- *)
Working == Range(iters) \cup (IF cur = 0 THEN {} ELSE {cur})

\* C6 (parallel composition): what ParallelInput has yielded is an
\* interleaving that holds, for every stream, exactly the values the stream
\* delivered, in their order, the records among them being the first
\* records of the input in their order; a stream is out of the working set
\* only once it is cleanly exhausted; and the iteration ends only when the
\* working set is empty, every stream being cleanly exhausted and having
\* yielded every record of its input exactly once.  (Records are counted
\* apart from the None of C1.)
C6_ParallelInterleaving ==
    /\ \A n \in Streams : From(out, n) = delivered[n]
    /\ Len(out) = Len(ConcatUpTo(delivered, NStreams))
    /\ \A n \in Streams : IsPrefix(Records(delivered[n]), env[n].recs)
    /\ pc = "loop" => \A n \in Streams \ Working : Exhausted(strm[n])
    /\ pc = "done" =>
          /\ Working = {}
          /\ \A n \in Streams :
                /\ Exhausted(strm[n])
                /\ Records(From(out, n)) = env[n].recs

(* ====================================================================== *)
(* SpecMerged: MergedInput.__iter__ = merge over couple(iters, heads, n)   *)
(* ====================================================================== *)
\* the Wait class, used as the marker of an empty head
WaitHead == [full |-> FALSE, v |-> NoneVal]

\* the values of merged records
MergeVals == {1, 2}

NonDecreasing(seq) == \A i \in 1..(Len(seq) - 1) : seq[i] <= seq[i + 1]

SortedRecs(n) == {r \in SeqsUpTo(MergeVals, MaxLen) : NonDecreasing(r)}

InitMerged ==
    /\ InitComp(SortedRecs, 1)
    /\ iters = << >>
    /\ heads = << >> /\ heap = << >>
    /\ pc = "start"

\* ParallelInput.fetch(iters, heads, stop), from index k on: every empty
\* head is asked for its next value.  Wait counts as busy, and StopIteration
\* is raised, only for the stream named by stop (0 stands for stop=all).
RECURSIVE fetch(_, _, _, _)
fetch(e, k, stop, t) ==
    IF k > NStreams THEN {t}
    ELSE IF t.heads[k].full THEN fetch(e, k + 1, stop, t)
    ELSE UNION {
        LET t1 == [t EXCEPT !.strm[k] = r.s]
        IN  CASE r.exc = "none" ->
                   fetch(e, k + 1, stop,
                         [t1 EXCEPT !.heads[k] = [full |-> TRUE, v |-> r.item],
                                    !.delivered[k] = Append(@, r.item)])
              [] r.exc = "Wait" ->
                   fetch(e, k + 1, stop,
                         IF stop \in {0, k} THEN [t1 EXCEPT !.busy = @ + 1] ELSE t1)
              [] r.exc = "StopIteration" ->
                   IF stop \in {0, k}
                   THEN {[t1 EXCEPT !.exc = "StopIteration"]}
                   ELSE fetch(e, k + 1, stop, t1)
              [] OTHER -> {[t1 EXCEPT !.exc = r.exc]}
        : r \in InputIter_next(e[k], t.strm[k]) }

\* ParallelInput.fill(iters, heads, n): one round of "while busy:"; a busy
\* round calls time.sleep
fill(e, n, t) ==
    {IF r.exc = "none" /\ r.busy > 0 THEN [r EXCEPT !.exc = backoff] ELSE r :
        r \in fetch(e, 1, n, [t EXCEPT !.busy = 0])}

\* faulty variant: the yielded head is not marked empty
couple_keeps_head(e, n, t) ==
    LET filled == IF t.heads[n].full THEN {t} ELSE fill(e, n, t)
    IN  {IF r.exc = "none" THEN [r EXCEPT !.v = r.heads[n].v] ELSE r :
            r \in filled}

\* ParallelInput.couple(iters, heads, n): one resumption of the generator.
\* Outcomes: [exc, v, strm, heads, delivered, busy].
couple(e, n, t) ==
    LET filled == IF t.heads[n].full THEN {t} ELSE fill(e, n, t)
    IN  {IF r.exc = "none"
         THEN [r EXCEPT !.v = r.heads[n].v, !.heads[n] = WaitHead]
         ELSE r : r \in filled}

Snapshot ==
    [exc |-> "none", v |-> NoneVal, busy |-> 0,
     strm |-> strm, heads |-> heads, delivered |-> delivered]

\* iters = [InputIter(input, **self.kwds) for input in self.inputs]
\* heads = [Wait] * len(iters)
MrgStart ==
    /\ pc = "start"
    /\ \E r \in construct(env, 1, strm) :
          /\ strm' = r.strm
          /\ IF r.exc = "none"
             THEN /\ pc' = "prime"
                  /\ cur' = 1
                  /\ heads' = [n \in Streams |-> WaitHead]
                  /\ heap' = [n \in Streams |-> WaitHead]
             ELSE pc' = r.exc /\ UNCHANGED <<cur, heads, heap>>
    /\ UNCHANGED <<env, delivered, out, iters, wk>>

\* merge asks the generator couple(iters, heads, cur) for its next value:
\* when it first takes a value of every generator (pc = "prime") and after
\* it has yielded the value it held of one (pc = "refill")
merge_pull(after) ==
    \E r \in couple(env, cur, Snapshot) :
        /\ strm' = r.strm
        /\ heads' = r.heads
        /\ delivered' = r.delivered
        /\ CASE r.exc = "none" ->
                 /\ heap' = [heap EXCEPT ![cur] = [full |-> TRUE, v |-> r.v]]
                 /\ pc' = after.pc /\ cur' = after.cur
             [] r.exc = "StopIteration" ->
                 /\ heap' = heap
                 /\ pc' = after.pc /\ cur' = after.cur
             [] r.exc = "Retry" ->
                 UNCHANGED <<heap, pc, cur>>
             [] OTHER ->
                 /\ pc' = r.exc
                 /\ UNCHANGED <<heap, cur>>

MrgPrime ==
    /\ pc = "prime"
    /\ merge_pull(IF cur < NStreams THEN [pc |-> "prime", cur |-> cur + 1]
                                    ELSE [pc |-> "merge", cur |-> 0])
    /\ UNCHANGED <<env, out, iters, wk>>

\* merge yields the smallest value it holds (of equal values, the one of
\* the earlier generator)
merge_min(h) ==
    {n \in Streams :
        /\ h[n].full
        /\ \A m \in Streams :
              h[m].full => (h[n].v < h[m].v \/ (h[n].v = h[m].v /\ n <= m))}

MrgEmit ==
    /\ pc = "merge"
    /\ \E n \in merge_min(heap) :
          /\ out' = Append(out, [src |-> n, v |-> heap[n].v])
          /\ heap' = [heap EXCEPT ![n] = WaitHead]
          /\ cur' = n
          /\ pc' = "refill"
    /\ UNCHANGED <<env, strm, delivered, iters, heads, wk>>

MrgRefill ==
    /\ pc = "refill"
    /\ merge_pull([pc |-> "merge", cur |-> 0])
    /\ UNCHANGED <<env, out, iters, wk>>

\* merge holds no value: every generator has ended
MrgEnd ==
    /\ pc = "merge"
    /\ \A n \in Streams : ~heap[n].full
    /\ pc' = "done"
    /\ UNCHANGED <<env, strm, delivered, out, iters, cur, mergevars>>

NextMerged == MrgStart \/ MrgPrime \/ MrgEmit \/ MrgRefill \/ MrgEnd

SpecMerged == InitMerged /\ [][NextMerged]_vars

(* ====================================================================== *)
(* SpecComposed: ParallelInput or MergedInput over the same inputs         *)
(* ====================================================================== *)
\* the first step constructs the streams as ParallelInput.__iter__ or as
\* MergedInput.__iter__ does, and the iteration goes on as that composition
SpecComposed == InitParallel /\ [][NextParallel \/ NextMerged]_vars

(* ------------------------------ C4 ------------------------------------- *)
\* C4 (merged composition): as long as every stream has delivered its values
\* in non-decreasing order, what MergedInput has yielded is non-decreasing;
\* it never yields a value twice or out of a stream's order; and when the
\* iteration ends every stream has ended (cleanly, when the master was
\* always ready for it) and every value every stream delivered has been
\* yielded exactly once, an input whose replicas read through having
\* contributed exactly its record sequence.
C4_MergedSorted ==
    /\ (\A n \in Streams : NonDecreasing(delivered[n])) => NonDecreasing(Vals(out))
    /\ pc \notin {"start", "none"} =>
          \A n \in Streams : IsPrefix(From(out, n), delivered[n])
    /\ pc = "done" =>
          \A n \in Streams :
             /\ From(out, n) = delivered[n]
             /\ Ended(strm[n])
             /\ ~GotBusy(n) => Exhausted(strm[n])
             /\ Healthy(env[n]) => delivered[n] = env[n].recs

\* A = [1, 2] and B = [1, 2] merged into 1, 1, 2, 2, alternating A and B
C4_Witness ==
    /\ pc = "done"
    /\ \A n \in Streams : Healthy(env[n])
    /\ Len(out) = 2 * NStreams
    /\ \A i \in 1..Len(out) :
          /\ out[i].src = ((i - 1) % NStreams) + 1
          /\ out[i].v = ((i - 1) \div NStreams) + 1

(* ------------------------------ C5 ------------------------------------- *)
BusyFirst(e) == Len(e.script) > 0 /\ e.script[1] = "busy"

\* C5 (merged composition, a stream busy before its first record): the
\* busy reply does not make the iteration fail, nothing is yielded while the
\* stream's head is unknown, and the complete output is non-decreasing and
\* holds every record of every stream exactly once.
C5_BusyThenReady ==
    (\E n \in Streams : BusyFirst(env[n])) =>
       /\ pc \notin {"Wait", "NameError"}
       /\ (\E n \in Streams : strm[n].iter.st = "none") => out = << >>
       /\ pc = "done" =>
             /\ NonDecreasing(Vals(out))
             /\ \A n \in Streams : From(out, n) = env[n].recs

(* ====================================================================== *)
(* Spec: the Worker process -- Worker.main, start, run, end, output, send  *)
(* ====================================================================== *)
Parts == {"None", "p0"}          \* partition labels; "None" is the absent label
ReplyKinds == {"OK", "ERROR"}    \* the kind of a reply frame
Bodies == {"r1", "r2"}           \* the decoded payload of a reply frame
\* the kinds of message of the protocol
Kinds == {"PID", "JOB", "TSK", "INP", "MSG", "OUT", "DAT", "ERR", "END", "ERROR"}
\* kinds the user procedure writes on the channel: MSG (print), INP
\* (Worker.input, get_inputs, get_input), DAT (IDedInput.unavailable), and
\* whatever it hands to Worker.send itself, which takes any kind
UserKinds == Kinds
\* classes of exception that derive from Exception
Excs == {"DataError", "EnvironmentError", "MemoryError", "Exception"}
\* classes that do not: SystemExit, and "KeyboardInterrupt" for the others
\* (KeyboardInterrupt, GeneratorExit)
Exits == {"SystemExit", "KeyboardInterrupt"}
\* classes of exception the user procedure raises
UserExcs == Excs \cup Exits
\* classes of exception loading the job pack raises: open() of the file the
\* reply to JOB names, JobPack.load, cPickle.loads in Worker.unpack
JobExcs == {"EnvironmentError", "Exception", "SystemExit"}
\* classes of exception between the reply to TSK and run: Task(**...) in
\* get_task, set_mem_limit and task.makedirs in Worker.start
TaskExcs == {"EnvironmentError", "Exception", "SystemExit"}
\* classes of exception storing the profile raises: open(path).read() and
\* task.put in Worker.start
PutExcs == {"EnvironmentError", "Exception", "SystemExit"}
\* classes of exception persisting the outputs raises: DDFS(master).save
\* in Worker.save_outputs
SaveExcs == {"EnvironmentError", "Exception", "SystemExit"}
\* the class of the exception a timed-out read raises
TimeoutExcs == {"EnvironmentError", "Exception"}

InitWorker ==
    /\ wk \in {[pc |-> "PID", pend |-> "", written |-> 0, consumed |-> 0,
                 log |-> << >>, reply |-> [kind |-> "", body |-> ""],
                 result |-> [how |-> "", value |-> ""],
                 outputs |-> [q \in Parts |-> 0], parts |-> << >>,
                 closed |-> << >>, reported |-> {}, saved |-> FALSE,
                 calls |-> << >>, usends |-> 0, byuser |-> {}, timeouts |-> 0,
                 exc |-> "", caught |-> "", failedAt |-> "", hung |-> FALSE,
                 swallowed |-> FALSE, cfg |-> c] :
                   c \in [save : BOOLEAN, mode : {"map", "reduce"},
                          reduce : BOOLEAN, profile : BOOLEAN]}
    /\ env = [n \in Streams |-> IdleEnv]
    /\ strm = [n \in Streams |-> NewStream]
    /\ delivered = [n \in Streams |-> << >>]
    /\ pc = "none"
    /\ out = << >> /\ iters = << >> /\ cur = 0
    /\ heads = << >> /\ heap = << >>

notworker == <<env, strm, delivered, pc, out, iters, cur, heads, heap>>

\* no call of Worker.send is under way or has just ended: the reply frame
\* and the result are locals of the call
no_call(w) ==
    [w EXCEPT !.reply = [kind |-> "", body |-> ""],
              !.result = [how |-> "", value |-> ""]]

\* the user procedure is over, returned or unwound by an exception: gone
\* with its frame are the Outputs it was handed and what its last send
\* returned
run_over(w) == [no_call(w) EXCEPT !.calls = << >>]

\* Worker.send, first half: sys.stderr.write('%s %d %s\n' % (type, len(body), body));
\* the call has read no reply and has no result yet
send_write(w, type) ==
    [no_call(w) EXCEPT !.pend = type, !.written = @ + 1, !.log = Append(@, type)]

\* Worker.send, after the reply frame has been read:
\* if type == 'ERROR': raise ValueError(loads(rbody[:-1]));  return loads(rbody[:-1])
send_result(type, rkind, body) ==
    IF type = "ERROR"
    THEN [how |-> "raise", value |-> body]
    ELSE [how |-> "return", value |-> body]

\* faulty variant: an exception met while reporting is dropped and main
\* returns
main_except_report_quiet(w, c) ==
    IF w.pc = "report"
    THEN [run_over(w) EXCEPT !.pc = "done", !.exc = c]
    ELSE IF c \notin Excs
    THEN [run_over(w) EXCEPT !.pc = "raised", !.exc = c, !.failedAt = w.pc]
    ELSE [run_over(w) EXCEPT !.pc = "report", !.exc = c, !.caught = c,
                             !.failedAt = w.pc]

\* Worker.main: the except clauses.  An exception in the try block that
\* derives from Exception is to be reported (caught records the exception
\* the handler was entered with, failedAt the step of the try block that
\* raised it); one that does not matches neither clause and leaves main
\* unreported; an exception raised while reporting leaves main.
main_except(w, c) ==
    IF w.pc = "report"
    THEN [run_over(w) EXCEPT !.pc = "raised", !.exc = c]
    ELSE IF c \notin Excs
    THEN [run_over(w) EXCEPT !.pc = "raised", !.exc = c, !.failedAt = w.pc]
    ELSE [run_over(w) EXCEPT !.pc = "report", !.exc = c, !.caught = c,
                             !.failedAt = w.pc]

\* faulty variant: only DataError is reported as DAT
report_kind_DataError_only(c) ==
    IF c = "DataError" THEN "DAT" ELSE "ERR"

\* the kind of the report: except (DataError, EnvironmentError, MemoryError)
\* sends DAT, except Exception sends ERR
report_kind(c) ==
    IF c \in {"DataError", "EnvironmentError", "MemoryError"} THEN "DAT" ELSE "ERR"

\* faulty variant: the outputs of a map task feeding a reduce are persisted
\* as well
sends_outputs_unless_save(c) == ~c.save

\* Worker.end: not self['save'] or (task.mode == 'map' and self['reduce'])
sends_outputs(c) == ~c.save \/ (c.mode = "map" /\ c.reduce)

\* where Worker.main goes on once a send has returned; only get_jobpack,
\* get_task and the user procedure look at what it returned
main_continue(w) ==
    CASE w.pc = "PID"    -> [no_call(w) EXCEPT !.pc = "JOB"]
      [] w.pc = "JOB"    -> [w EXCEPT !.pc = "TSK"]
      [] w.pc = "TSK"    -> [w EXCEPT !.pc = "run"]
      [] w.pc = "end"    -> no_call(w)
      [] w.pc = "endmsg" -> [no_call(w) EXCEPT !.pc = "END"]
      [] w.pc = "END"    -> [no_call(w) EXCEPT !.pc = "done"]
      [] w.pc = "report" -> [no_call(w) EXCEPT !.pc = "raised"]
      [] OTHER           -> w

\* faulty variant: every request opens a new Output
Worker_output_reopens(w, q) ==
    LET id == Len(w.parts) + 1
    IN  [w EXCEPT !.outputs[q] = id, !.parts = Append(@, q),
                  !.closed = Append(@, 0),
                  !.calls = Append(@, [p |-> q, ret |-> id])]

\* Worker.output(task, partition): the Output of the partition, opened if
\* self.outputs has none
Worker_output(w, q) ==
    IF w.outputs[q] = 0
    THEN LET id == Len(w.parts) + 1
         IN  [w EXCEPT !.outputs[q] = id, !.parts = Append(@, q),
                       !.closed = Append(@, 0),
                       !.calls = Append(@, [p |-> q, ret |-> id])]
    ELSE [w EXCEPT !.calls = Append(@, [p |-> q, ret |-> w.outputs[q]])]

Idle(site) == wk.pc = site /\ wk.pend = ""

\* cls.send('PID', os.getpid())
SendPID ==
    /\ Idle("PID")
    /\ wk' = send_write(wk, "PID")
    /\ UNCHANGED notworker

\* cls.get_jobpack(): cls.send('JOB')
SendJOB ==
    /\ Idle("JOB")
    /\ wk' = send_write(wk, "JOB")
    /\ UNCHANGED notworker

\* cls.get_task(): cls.send('TSK')
SendTSK ==
    /\ Idle("TSK")
    /\ wk' = send_write(wk, "TSK")
    /\ UNCHANGED notworker

\* the user procedure asks for an Output
UserOutput ==
    /\ Idle("run")
    /\ Len(wk.calls) < MaxCalls
    /\ \E q \in Parts : wk' = Worker_output(wk, q)
    /\ UNCHANGED notworker

\* the user procedure sends a message: print goes through MessageWriter
\* as MSG, reading the input sends INP and DAT, and Worker.send is open to
\* any kind (byuser records the positions of the log it wrote)
UserSend ==
    /\ Idle("run")
    /\ wk.usends < MaxUserSends
    /\ \E k \in UserKinds :
          wk' = [send_write(wk, k) EXCEPT !.usends = @ + 1,
                                         !.byuser = @ \cup {Len(wk.log) + 1}]
    /\ UNCHANGED notworker

\* Worker.start, an exception leaving self.run: under self['profile'] the
\* run is inside cProfile.runctx, which passes every exception on but
\* SystemExit; that one it swallows, and start goes on as if run had
\* returned
start_run_raises(w, c) ==
    IF w.cfg.profile /\ c = "SystemExit"
    THEN [run_over(w) EXCEPT !.pc = "put", !.swallowed = TRUE]
    ELSE main_except(w, c)

\* the user procedure raises
UserRaise ==
    /\ Idle("run")
    /\ \E c \in UserExcs : wk' = start_run_raises(wk, c)
    /\ UNCHANGED notworker

\* Worker.run returns; Worker.start goes on to store the profile, if one
\* was asked for, and then to self.end
UserReturn ==
    /\ Idle("run")
    /\ wk' = [run_over(wk) EXCEPT !.pc = IF wk.cfg.profile THEN "put" ELSE "end"]
    /\ UNCHANGED notworker

\* Worker.start: task.put(name, open(path).read()), which may fail
ProfilePut ==
    /\ Idle("put")
    /\ \/ wk' = [wk EXCEPT !.pc = "end"]
       \/ \E c \in PutExcs : wk' = main_except(wk, c)
    /\ UNCHANGED notworker

AllOutputs == 1..Len(wk.parts)

\* Worker.send_outputs: output.file.close(); self.send('OUT', ...) for the
\* next Output of self.outputs.values()
EndSendOutput ==
    /\ Idle("end")
    /\ sends_outputs(wk.cfg)
    /\ \E id \in AllOutputs \ wk.reported :
          wk' = [send_write(wk, "OUT") EXCEPT !.closed[id] = @ + 1,
                                             !.reported = @ \cup {id}]
    /\ UNCHANGED notworker

\* DDFS(master).save(jobname, paths()): the Outputs whose paths it pulls
\* out of the generator before it returns or raises.  disco.ddfs is not
\* part of this module, and self.outputs.values() has no specified order:
\* any of the Outputs, or none.
DDFS_save_pulls(w) == SUBSET (1..Len(w.parts))

\* paths() in Worker.save_outputs: output.file.close(); yield output.path,
\* run for the Outputs whose paths are pulled
paths(w, taken) ==
    [id \in 1..Len(w.parts) |-> w.closed[id] + (IF id \in taken THEN 1 ELSE 0)]

\* Worker.save_outputs: DDFS.save returns, having pulled some of the paths,
\* and what it returned is sent in one OUT
EndSave ==
    /\ Idle("end")
    /\ ~sends_outputs(wk.cfg)
    /\ ~wk.saved
    /\ \E taken \in DDFS_save_pulls(wk) :
          wk' = [send_write(wk, "OUT") EXCEPT !.closed = paths(wk, taken),
                                             !.saved = TRUE]
    /\ UNCHANGED notworker

\* Worker.save_outputs: DDFS.save raises, having pulled some of the paths
EndSaveFail ==
    /\ Idle("end")
    /\ ~sends_outputs(wk.cfg)
    /\ ~wk.saved
    /\ \E taken \in DDFS_save_pulls(wk) : \E c \in SaveExcs :
          wk' = [main_except(wk, c) EXCEPT !.closed = paths(wk, taken)]
    /\ UNCHANGED notworker

\* Worker.end: self.send('MSG', "Results sent to master" / "Results saved to DDFS")
EndMsg ==
    /\ Idle("end")
    /\ IF sends_outputs(wk.cfg) THEN wk.reported = AllOutputs ELSE wk.saved
    /\ wk' = [send_write(wk, "MSG") EXCEPT !.pc = "endmsg"]
    /\ UNCHANGED notworker

\* cls.send('END')
SendEND ==
    /\ Idle("END")
    /\ wk' = send_write(wk, "END")
    /\ UNCHANGED notworker

\* cls.send('DAT', traceback.format_exc()) or cls.send('ERR', ...)
Report ==
    /\ Idle("report")
    /\ wk' = send_write(wk, report_kind(wk.exc))
    /\ UNCHANGED notworker

\* the master's reply frame arrives and Worker.send finishes; the job pack
\* named by the reply to JOB may fail to open or to unpickle, and the reply
\* to TSK may fail to make a Task or its directories.  What send raises it
\* raises into its caller: the user procedure lets it pass, or handles it
\* and goes on
MasterReply ==
    /\ wk.pend # ""
    /\ ~wk.hung
    /\ \E k \in ReplyKinds : \E b \in Bodies :
          LET res == send_result(wk.pend, k, b)
              w1  == [wk EXCEPT !.pend = "", !.consumed = @ + 1,
                                !.reply = [kind |-> k, body |-> b],
                                !.result = res]
          IN  \/ /\ res.how = "return"
                 /\ wk' = main_continue(w1)
              \/ /\ res.how = "return"
                 /\ wk.pc = "JOB"
                 /\ \E c \in JobExcs : wk' = main_except(w1, c)
              \/ /\ res.how = "return"
                 /\ wk.pc = "TSK"
                 /\ \E c \in TaskExcs : wk' = main_except(w1, c)
              \/ /\ res.how = "raise"
                 /\ wk' = start_run_raises(w1, "Exception")
              \/ /\ res.how = "raise"
                 /\ wk.pc = "run"
                 /\ wk' = w1
    /\ UNCHANGED notworker

\* no reply arrives within the timeout of NonBlockingInput: the read, and
\* with it Worker.send, fails; the user procedure lets the exception of a
\* send of its own pass, or handles it and goes on
ReadTimeout ==
    /\ wk.pend # ""
    /\ LET w1 == [wk EXCEPT !.pend = "", !.timeouts = @ + 1]
       IN  \/ \E c \in TimeoutExcs : wk' = main_except(w1, c)
           \/ wk.pc = "run" /\ wk' = w1
    /\ UNCHANGED notworker

\* the master hangs: it leaves the request that waits for its reply, and
\* every later one, unanswered
MasterHangs ==
    /\ ~wk.hung
    /\ wk.pend # ""
    /\ wk' = [wk EXCEPT !.hung = TRUE]
    /\ UNCHANGED notworker

Next ==
    \/ SendPID \/ SendJOB \/ SendTSK
    \/ UserOutput \/ UserSend \/ UserRaise \/ UserReturn \/ ProfilePut
    \/ EndSendOutput \/ EndSave \/ EndSaveFail \/ EndMsg
    \/ SendEND \/ Report \/ MasterReply \/ ReadTimeout \/ MasterHangs

Spec == InitWorker /\ [][Next]_vars

\* the worker is a single thread that goes on whenever it can, and a read
\* that gets no reply ends when its timeout has passed
FairSpec == Spec /\ WF_vars(Next)

(* ------------------------------ C3 ------------------------------------- *)
\* C3 (ERROR replies): whatever kind of message was sent, a reply of kind
\* "ERROR" makes Worker.send fail with the decoded reply payload, and a
\* reply of any other kind makes it return the decoded payload.
C3_ErrorReplyFails ==
    /\ wk.reply.kind = "ERROR" =>
          wk.result = [how |-> "raise", value |-> wk.reply.body]
    /\ wk.reply.kind = "OK" =>
          wk.result = [how |-> "return", value |-> wk.reply.body]

(* ------------------------------ C8 ------------------------------------- *)
\* C8 (one Output per partition): no two Output instances have the same
\* partition label; while the user procedure runs, the instances opened
\* are as many as the labels it has asked for (the first request for a
\* label opened exactly one); and every request for a label returned the
\* instance that self.outputs holds for it.
C8_OneOutputPerPartition ==
    /\ \A i \in 1..Len(wk.parts) : \A j \in 1..Len(wk.parts) :
          wk.parts[i] = wk.parts[j] => i = j
    /\ wk.pc = "run" =>
          Len(wk.parts) = Cardinality({wk.calls[i].p : i \in 1..Len(wk.calls)})
    /\ \A i \in 1..Len(wk.calls) :
          /\ wk.calls[i].ret = wk.outputs[wk.calls[i].p]
          /\ wk.parts[wk.calls[i].ret] = wk.calls[i].p

\* the absent label requested, then "p0", then the absent label again
C8_Witness ==
    /\ Len(wk.calls) = 3
    /\ wk.calls[1].p = "None" /\ wk.calls[2].p = "p0" /\ wk.calls[3].p = "None"
    /\ wk.calls[3].ret = wk.calls[1].ret
    /\ Len(wk.parts) = 2

(* ------------------------------ C9 ------------------------------------- *)
\* C9 (Outputs closed once): when the task has completed, in success (END
\* answered) or in failure (the failure re-raised out of main), every Output
\* opened during the task has been closed exactly once.
C9_ClosedOnce ==
    wk.pc \in {"done", "raised"} =>
       \A id \in 1..Len(wk.parts) : wk.closed[id] = 1

(* ------------------------------ C10 ------------------------------------ *)
\* C10 (one outstanding request): the messages written exceed the replies
\* consumed by 0 or 1, by 1 exactly while a send awaits its reply.
C10_OneOutstanding ==
    /\ wk.written - wk.consumed \in {0, 1}
    /\ (wk.written - wk.consumed = 1) <=> (wk.pend # "")

(* ------------------------------ C11 ------------------------------------ *)
\* the positions of the log that hold a failure report of Worker.main
\* (a DAT or ERR that the user procedure wrote during run is not one)
Reports ==
    {i \in 1..Len(wk.log) : wk.log[i] \in {"DAT", "ERR"} /\ i \notin wk.byuser}

\* C11 as stated (failure classification): a DataError that escapes the task
\* is reported as DAT and every other failure as ERR; exactly one report is
\* sent per failure, nothing is sent after it, and no report is sent without
\* a failure.
C11_AsStated ==
    /\ Cardinality(Reports) <= 1
    /\ wk.caught = "" => Reports = {}
    /\ wk.pc = "raised" => Cardinality(Reports) = 1
    /\ \A i \in Reports :
          /\ i = Len(wk.log)
          /\ wk.log[i] = (IF wk.caught = "DataError" THEN "DAT" ELSE "ERR")

\* C11 (failure classification, amended): a DataError, EnvironmentError or
\* MemoryError that escapes the task is reported as DAT and every other
\* failure that derives from Exception as ERR; exactly one report is sent
\* per such failure, nothing is sent after it, and no report is sent without
\* one (main ends unreported only on an exception that does not derive from
\* Exception).
C11_FailureClassified ==
    /\ Cardinality(Reports) <= 1
    /\ wk.caught = "" => Reports = {}
    /\ wk.pc = "raised" =>
          IF wk.caught = ""
          THEN wk.exc \in Exits
          ELSE Cardinality(Reports) = 1
    /\ \A i \in Reports :
          /\ i = Len(wk.log)
          /\ wk.log[i] = (IF wk.caught \in {"DataError", "EnvironmentError",
                                            "MemoryError"}
                          THEN "DAT" ELSE "ERR")

\* the user procedure ran out of memory, which was reported as DAT, and
\* main has re-raised
C11_Witness ==
    /\ wk.pc = "raised"
    /\ wk.caught = "MemoryError"
    /\ wk.log # << >>
    /\ wk.log[Len(wk.log)] = "DAT"

(* ------------------------------ C12 ------------------------------------ *)
\* the positions of the log that hold the END of Worker.main, and the
\* number of OUT messages of Worker.end (an END or OUT that the user
\* procedure wrote during run is not one)
Ends == {i \in 1..Len(wk.log) : wk.log[i] = "END" /\ i \notin wk.byuser}
Outs ==
    Cardinality({i \in 1..Len(wk.log) : wk.log[i] = "OUT" /\ i \notin wk.byuser})

\* C12 (lifecycle ordering): END is sent by main at most once, and only
\* when the user procedure did not fail (no exception ended run, be it one
\* that cProfile swallowed, and none ended any other step before END),
\* every Output opened has been closed
\* and handed to the master in OUT messages (one OUT each, or the single OUT
\* of the persisted set) and the progress message has been sent; a
\* successful run ends with END and holds no error report; a failed run
\* whose exception main handles holds an error report, and it holds END as
\* well only when the failure is that of sending END itself; a run that an
\* exit request ended holds neither.
C12_LifecycleOrder ==
    /\ Cardinality(Ends) <= 1
    /\ \A i \in Ends :
          /\ \A id \in AllOutputs : wk.closed[id] = 1
          /\ \/ wk.reported = AllOutputs /\ Outs = Len(wk.parts)
             \/ wk.saved /\ Outs = 1
          /\ i > 1 /\ wk.log[i - 1] = "MSG"
          /\ \A j \in Reports : j = i + 1
          /\ wk.failedAt \in {"", "END"}
          /\ ~wk.swallowed
    /\ wk.pc = "done" => Ends = {Len(wk.log)} /\ Reports = {}
    /\ wk.pc = "raised" /\ wk.caught # "" => Reports # {}
    /\ wk.pc = "raised" /\ wk.caught = "" =>
          wk.exc \in Exits /\ Reports = {} /\ Ends = {}

(* ------------------------------ C13 ------------------------------------ *)
\* C13 (no hang on a silent master): whenever a request is waiting for its
\* reply and the master has stopped answering, the worker eventually ends
\* with the failure re-raised out of main; each read that was given up was
\* given up by the timeout.
C13_TimeoutTerminates ==
    (wk.hung /\ wk.pend # "") ~> (wk.pc = "raised" /\ wk.timeouts >= 1)

\* the master hung, the request and then the report timed out, main raised
C13_Witness ==
    /\ wk.hung
    /\ wk.pc = "raised"
    /\ wk.timeouts = 2
    /\ Cardinality(Reports) = 1

(* ------------------------------ C14 ------------------------------------ *)
\* stream n has failed: it reported every replica tried and raised
\* DataError, or its input was reported failed for good
FailedStream(n) ==
    \/ strm[n].dat # << >>
    \/ env[n].after = "failed" /\ strm[n].resolved > Len(env[n].script)

\* every replica of the input raises a data error at some read
Unreadable(e) == \A u \in e.replicas : u \in e.badOpen \/ e.failAt[u] # Never

\* C14 (compositions do not swallow a stream's failure): as soon as a
\* stream of a ParallelInput or MergedInput has failed, the composed
\* iteration has ended with that error (DataError for exhausted replicas);
\* a stream leaves the composition only when it is cleanly exhausted, so
\* an iteration that ends normally has no failed stream and no input
\* without a readable replica.
C14_DataErrorPropagates ==
    /\ \A n \in Streams :
          /\ strm[n].dat # << >> => pc = "DataError"
          /\ FailedStream(n) => pc \in {"DataError", "RuntimeError"}
    /\ pc = "loop" => \A n \in Streams \ Working : Exhausted(strm[n])
    /\ pc = "done" =>
          \A n \in Streams :
             /\ ~FailedStream(n)
             /\ ~Unreadable(env[n])
             /\ Exhausted(strm[n])

(* ------------------------------ C15 ------------------------------------ *)
\* C15 (tried URLs): the set of used URLs of a ReplicaIter never loses a
\* member; the URLs it has returned (those handed to open) are exactly its
\* used URLs; and it returns no URL twice, although every resolution lists
\* the same replicas again.
C15_UsedOnlyGrows ==
    /\ [][\A n \in Streams : strm[n].used \subseteq strm'[n].used]_vars
    /\ [](\A n \in Streams :
            /\ Range(strm[n].opened) = strm[n].used
            /\ \A i \in 1..Len(strm[n].opened) : \A j \in 1..Len(strm[n].opened) :
                  strm[n].opened[i] = strm[n].opened[j] => i = j)

\* the master was asked three times and listed both replicas each time;
\* each was returned once
C15_Witness ==
    /\ strm[1].resolved >= 3
    /\ env[1].replicas = URLs
    /\ Len(strm[1].opened) = 2
    /\ strm[1].used = URLs

(* ------------------------------ C16 ------------------------------------ *)
\* the task's configuration asks for persisted outputs: save is set and the
\* task is not a map task of a job that has a reduce
Persists(c) == c.save /\ ~(c.mode = "map" /\ c.reduce)

\* C16 (finishing step): the Outputs are handed to the durable storage
\* only when the configuration asks for it, and are sent one by one only
\* when it does not; once the finishing step is through, exactly one of the
\* two has happened, the one the configuration selects: either the Outputs
\* were handed to the durable storage and one OUT was sent, or every Output
\* was closed and sent in an OUT of its own; and a progress MSG followed.
\* (Which Outputs the storage call closes on the way is its own matter and
\* is no part of this statement.)
C16_EndBranch ==
    /\ wk.saved => Persists(wk.cfg) /\ wk.reported = {}
    /\ wk.reported # {} => ~Persists(wk.cfg) /\ ~wk.saved
    /\ wk.pc \in {"endmsg", "END", "done"} =>
          /\ wk.saved <=> Persists(wk.cfg)
          /\ wk.saved => Outs = 1
          /\ ~wk.saved =>
                /\ wk.reported = AllOutputs /\ Outs = Len(wk.parts)
                /\ \A id \in AllOutputs : wk.closed[id] = 1
          /\ \E i \in 1..Len(wk.log) :
                /\ wk.log[i] = "MSG"
                /\ \A j \in 1..Len(wk.log) : wk.log[j] = "OUT" => j < i
                /\ \A j \in (i + 1)..Len(wk.log) : wk.log[j] \in {"END", "DAT", "ERR"}

\* a map task of a job with a reduce, save set: both Outputs were sent to
\* the master, none persisted
C16_Witness ==
    /\ wk.pc = "done"
    /\ wk.cfg.save /\ wk.cfg.mode = "map" /\ wk.cfg.reduce
    /\ Len(wk.parts) = 2
    /\ wk.reported = AllOutputs
    /\ ~wk.saved

(* ====================================================================== *)
(* SpecInputs: Worker.get_inputs, the enumeration of the logical inputs    *)
(* ====================================================================== *)
\* the identifiers the master may list
InputIds == {"i1", "i2"}

\* a reply to an unfiltered INP request: the done flag and the listed ids
\* (the status and the URLs of an entry are not looked at)
InpReplies == [done : BOOLEAN, ids : SeqsUpTo(InputIds, MaxListed)]

\* the generator get_inputs(done=False, exclude=()) before its first
\* resumption; listed and requests record what the master was asked and
\* what it listed
InitInputs ==
    /\ wk = [pc |-> "while", done |-> FALSE, inputs |-> << >>,
             exclude |-> << >>, yielded |-> << >>, listed |-> {},
             requests |-> 0]
    /\ env = [n \in Streams |-> IdleEnv]
    /\ strm = [n \in Streams |-> NewStream]
    /\ delivered = [n \in Streams |-> << >>]
    /\ pc = "none"
    /\ out = << >> /\ iters = << >> /\ cur = 0
    /\ heads = << >> /\ heap = << >>

\* faulty variant: an id is yielded whether or not it was yielded before
get_inputs_for_all(w) ==
    IF w.inputs = << >>
    THEN [w EXCEPT !.pc = "while"]
    ELSE [w EXCEPT !.pc = "yield", !.yielded = Append(@, Head(w.inputs))]

\* for id, status, urls in inputs: if id not in exclude: yield IDedInput(...)
get_inputs_for(w) ==
    IF w.inputs = << >>
    THEN [w EXCEPT !.pc = "while"]
    ELSE IF Head(w.inputs) \in Range(w.exclude)
    THEN [w EXCEPT !.inputs = Tail(@)]
    ELSE [w EXCEPT !.pc = "yield", !.yielded = Append(@, Head(w.inputs))]

\* while not done: done, inputs = cls.send('INP')
InputsRequest ==
    /\ wk.pc = "while" /\ ~wk.done
    /\ wk.requests < MaxRequests
    /\ \E r \in InpReplies :
          wk' = [wk EXCEPT !.pc = "for", !.done = r.done, !.inputs = r.ids,
                           !.requests = @ + 1,
                           !.listed = @ \cup Range(r.ids)]
    /\ UNCHANGED notworker

\* the for loop goes to its next entry, up to the yield
InputsFor ==
    /\ wk.pc = "for"
    /\ wk' = get_inputs_for(wk)
    /\ UNCHANGED notworker

\* the consumer asks for the next input: exclude += (id, )
InputsResume ==
    /\ wk.pc = "yield"
    /\ wk' = [wk EXCEPT !.pc = "for", !.exclude = Append(@, Head(wk.inputs)),
                        !.inputs = Tail(@)]
    /\ UNCHANGED notworker

\* while not done: done is set, the generator ends
InputsEnd ==
    /\ wk.pc = "while" /\ wk.done
    /\ wk' = [wk EXCEPT !.pc = "end"]
    /\ UNCHANGED notworker

NextInputs == InputsRequest \/ InputsFor \/ InputsResume \/ InputsEnd

SpecInputs == InitInputs /\ [][NextInputs]_vars

(* ------------------------------ C17 ------------------------------------ *)
\* C17 (enumeration of the inputs): no id is yielded twice; only listed ids
\* are yielded; when the enumeration ends the master has signalled
\* completion and every id it listed in any reply has been yielded; and once
\* the master has signalled completion no further INP request is sent.
C17_InputsOnce ==
    /\ [](/\ \A i \in 1..Len(wk.yielded) : \A j \in 1..Len(wk.yielded) :
                wk.yielded[i] = wk.yielded[j] => i = j
          /\ Range(wk.yielded) \subseteq wk.listed
          /\ wk.pc = "end" => wk.done /\ Range(wk.yielded) = wk.listed)
    /\ [][wk.done => wk'.requests = wk.requests]_vars

\* an enumeration of three requests that yielded i1 and then i2
C17_Witness ==
    /\ wk.pc = "end"
    /\ wk.requests = 3
    /\ wk.yielded = <<"i1", "i2">>

(* ------------------------------ C18 ------------------------------------ *)
\* stream n reported busy when it was last polled: the read of its replica
\* had failed and the master's latest reply for it is "busy"
BusyNow(n) ==
    /\ strm[n].iter.st = "raised"
    /\ strm[n].resolved \in 1..Len(env[n].script)
    /\ env[n].script[strm[n].resolved] = "busy"

\* C18 (parallel backoff): ParallelInput calls the pause (in this module
\* the call of time.sleep ends the iteration with NameError) only when every
\* stream of the working set reported busy at its last poll, and it does
\* not go on to poll again, unpaused, when the two or more streams of the
\* working set have all reported busy.
C18_ParallelBackoff ==
    /\ pc = "NameError" => \A n \in Working : BusyNow(n)
    /\ (pc = "loop" /\ cur = 0 /\ Cardinality(Working) >= 2) =>
          \E n \in Working : ~BusyNow(n)

(* ------------------------------ C19 ------------------------------------ *)
\* C19 (merged backoff): MergedInput calls the pause (in this module the
\* call of time.sleep ends the iteration with NameError) only when every
\* stream that has not ended reported busy at its last poll; a busy stream
\* next to one that is not busy causes no pause.
C19_MergedBackoff ==
    pc = "NameError" => \A n \in Streams : Exhausted(strm[n]) \/ BusyNow(n)

(* ------------------------------ C20 ------------------------------------ *)
\* of the first k replies, how many were "ok" and how many were not
OkReplies(e, k) == Cardinality({i \in 1..k : ReplyStatus(e, i) = "ok"})
NonOkReplies(e, k) == k - OkReplies(e, k)

\* C20 as stated (cached replica set): the master, which lists the same
\* replicas in every ready reply, is asked again only when the set of the
\* last ready reply has no untried URL left; so a second ready reply is one
\* that leaves no untried URL, and the stream reports unavailable on it.
\* And unavailable is reported only when no listed URL is untried.
C20_AsStated ==
    env[1].ided =>
       /\ OkReplies(env[1], strm[1].resolved) >= 2 => strm[1].dat # << >>
       /\ strm[1].dat # << >> => env[1].replicas \subseteq strm[1].used

\* C20 (fresh resolution, amended): a master-resolved stream sends one INP
\* request for every URL it picks, whether or not the previous reply listed
\* URLs still untried: the requests made are the URLs picked, plus the
\* replies that were busy or failed, plus the one resolution that found no
\* untried URL.  It reports unavailable only when the fresh ready reply
\* lists no untried URL.  An input given as plain URLs sends no request.
C20_FreshResolution ==
    /\ env[1].ided =>
          /\ strm[1].resolved = Len(strm[1].opened)
                                  + NonOkReplies(env[1], strm[1].resolved)
                                  + Len(strm[1].dat)
          /\ strm[1].dat # << >> =>
                /\ ReplyStatus(env[1], strm[1].resolved) = "ok"
                /\ env[1].replicas \subseteq strm[1].used
    /\ ~env[1].ided => strm[1].resolved = 0 /\ strm[1].dat = << >>

\* both replicas were listed by the first reply; the second was picked
\* after a second request, and the stream read it through
C20_Witness ==
    /\ env[1].ided
    /\ env[1].replicas = URLs
    /\ strm[1].resolved = 2
    /\ NonOkReplies(env[1], 2) = 0
    /\ Len(strm[1].opened) = 2
    /\ strm[1].dat = << >>
    /\ pc = "done"


(* ------------------------------ C21 ------------------------------------ *)
\* C21 (busy is a retry): a busy reply, at a stream's first resolution or at
\* a re-resolution, never ends the composed iteration with an error (the
\* Wait signal itself, or the failure of the pause), and an iteration that
\* got a busy reply for an input and ended has yielded every record of that
\* input exactly once, in order.
C21_BusyIsRetry ==
    (\E n \in Streams : GotBusy(n)) =>
       /\ pc \notin {"Wait", "NameError"}
       /\ pc = "done" =>
             \A n \in Streams : GotBusy(n) => Records(From(out, n)) = env[n].recs


(* ====================================================================== *)
(* SpecGetInput: Worker.get_input(id) on one reply of the master           *)
(* ====================================================================== *)
\* the status of the entry of a reply; "other" stands for any status that
\* is neither busy nor failed nor ok
EntryStatuses == Statuses \cup {"other"}

\* the replicas of an entry: (rid, url) pairs
ReplicaPairs == [rid : {1, 2}, url : URLs]

\* the call get_input(id) about to be made, and the entry the master will
\* answer with
InitGetInput ==
    /\ wk \in {[pc |-> "call", id |-> i, status |-> st, replicas |-> rp,
                 sent |-> << >>,
                 result |-> [exc |-> "none", arg |-> "", urls |-> << >>]] :
                   i \in InputIds, st \in EntryStatuses,
                   rp \in SeqsUpTo(ReplicaPairs, MaxListed)}
    /\ env = [n \in Streams |-> IdleEnv]
    /\ strm = [n \in Streams |-> NewStream]
    /\ delivered = [n \in Streams |-> << >>]
    /\ pc = "none"
    /\ out = << >> /\ iters = << >> /\ cur = 0
    /\ heads = << >> /\ heap = << >>

\* cls.send('INP', ['include', [id]])
get_input_request(id) == [type |-> "INP", filter |-> "include", ids |-> <<id>>]

\* get_input(id) runs: the request is sent and the reply classified
GetInputCall ==
    /\ wk.pc = "call"
    /\ LET r == get_input_status(wk.id, wk.status, wk.replicas)
       IN  wk' = [wk EXCEPT !.sent = Append(@, get_input_request(wk.id)),
                           !.result = r,
                           !.pc = IF r.exc = "none" THEN "returned" ELSE "raised"]
    /\ UNCHANGED notworker

SpecGetInput == InitGetInput /\ [][GetInputCall]_vars

(* ------------------------------ C22 ------------------------------------ *)
\* C22 (get_input): the call has sent exactly one message, an INP request
\* that includes only the id asked for; a busy entry raised Wait; a failed
\* entry raised DataError carrying the id; any other entry returned the URLs
\* of its replicas, all of them, in the order of the reply.
C22_GetInputClassifies ==
    wk.pc # "call" =>
       /\ Len(wk.sent) = 1
       /\ wk.sent[1].type = "INP"
       /\ wk.sent[1].filter = "include" /\ wk.sent[1].ids = <<wk.id>>
       /\ wk.status = "busy" => wk.pc = "raised" /\ wk.result.exc = "Wait"
       /\ wk.status = "failed" =>
             /\ wk.pc = "raised"
             /\ wk.result.exc = "DataError" /\ wk.result.arg = wk.id
       /\ wk.status \notin {"busy", "failed"} =>
             /\ wk.pc = "returned"
             /\ Len(wk.result.urls) = Len(wk.replicas)
             /\ \A i \in 1..Len(wk.replicas) :
                   wk.result.urls[i] = wk.replicas[i].url

\* an entry, neither busy nor failed, that lists "b" before "a"
C22_Witness ==
    /\ wk.pc = "returned"
    /\ wk.status = "other"
    /\ wk.result.urls = <<"b", "a">>

\* C23: if the user procedure run by Worker.run fails (it raises, whether or
\* not the exception gets as far as main, or a message it sends fails or
\* times out and it does not handle that), the worker sends no OUT message
\* for the task; the worker writes OUT only in the finishing step
\* (Worker.end), so a log that holds an OUT of the worker belongs to a task
\* whose try block did not fail before the finishing step.  (An OUT that the
\* user procedure wrote itself through Worker.send is not one of the
\* worker.)
C23_NoOutAfterFailedRun ==
    /\ (wk.failedAt = "run" \/ wk.swallowed) => Outs = 0
    /\ Outs > 0 =>
          /\ wk.pc \in {"end", "endmsg", "END", "done", "report", "raised"}
          /\ wk.failedAt \in {"", "end", "endmsg", "END"}

====
